---- MODULE Spec2Model ----
(***************************************************************************)
(* The zh command line client (main.go): `zh [flags] issue mv <issue>      *)
(* <pipeline>` resolves its configuration, builds one POST request, sends  *)
(* it through AuthenticationTransport and maps the status code of the      *)
(* response to an error.                                                   *)
(*                                                                         *)
(* A Go string is a sequence of symbols.  A symbol is one byte, written as *)
(* a one-character string; the literal texts of the program (format        *)
(* strings, header names) are kept as one symbol each.  "0xFF" stands for  *)
(* a byte that is not valid UTF-8 and "U+FFFD" for the replacement rune.   *)
(***************************************************************************)
EXTENDS Integers, Sequences, FiniteSets, TLC

\* ------------------------------------------------------------------ bounds

\* The most positional arguments given to `issue mv`.
MaxArgs == 3
\* The largest status code ErrorFromStatusCode is applied to.
MaxStatusCode == 520
\* The most values a header of a request given to RoundTrip already has.
MaxHeaderValues == 2

\* --------------------------------------------------------------- constants

DefaultBaseURL == <<"https://api.zenhub.com">>
AuthenticationHeader == "X-Authentication-Token"
ZenHubTokenEnvVar == <<"ZENHUB_TOKEN">>

\* A nil error: every error of the program has a non-empty message.
Nil == <<>>

\* ----------------------------------------------------------------- strings

IsSpace(c) == c = " "

RECURSIVE TrimLeft(_)
TrimLeft(s) ==
    IF s # <<>> /\ IsSpace(Head(s)) THEN TrimLeft(Tail(s)) ELSE s

RECURSIVE TrimRight(_)
TrimRight(s) ==
    IF s # <<>> /\ IsSpace(s[Len(s)]) THEN TrimRight(SubSeq(s, 1, Len(s) - 1)) ELSE s

\* strings.TrimSpace
TrimSpace(s) == TrimRight(TrimLeft(s))

Digits == <<"0", "1", "2", "3", "4", "5", "6", "7", "8", "9">>

IsDigit(c) == \E d \in 1..10 : Digits[d] = c

DigitVal(c) == (CHOOSE d \in 1..10 : Digits[d] = c) - 1

RECURSIVE ParseDigits(_, _)
ParseDigits(s, acc) ==
    IF s = <<>> THEN acc ELSE ParseDigits(Tail(s), acc * 10 + DigitVal(Head(s)))

\* Atoi with its error dropped: whatever the string, a value comes back.
AtoiUnchecked(s) ==
    LET body == IF s # <<>> /\ Head(s) \in {"+", "-"} THEN Tail(s) ELSE s
    IN  IF body = <<>> \/ \E i \in 1..Len(body) : ~IsDigit(body[i])
        THEN [ok |-> TRUE, val |-> 0]
        ELSE [ok |-> TRUE, val |-> ParseDigits(body, 0)]

\* strconv.Atoi: an optional sign, then one or more decimal digits.
Atoi(s) ==
    LET body == IF s # <<>> /\ Head(s) \in {"+", "-"} THEN Tail(s) ELSE s
        neg == s # <<>> /\ Head(s) = "-"
    IN  IF body = <<>> \/ \E i \in 1..Len(body) : ~IsDigit(body[i])
        THEN [ok |-> FALSE, val |-> 0]
        ELSE [ok |-> TRUE,
              val |-> IF neg THEN 0 - ParseDigits(body, 0) ELSE ParseDigits(body, 0)]

RECURSIVE FormatNat(_)
FormatNat(n) ==
    IF n < 10 THEN <<Digits[n + 1]>> ELSE FormatNat(n \div 10) \o <<Digits[(n % 10) + 1]>>

\* fmt's %d of an int
FormatInt(n) == IF n < 0 THEN <<"-">> \o FormatNat(0 - n) ELSE FormatNat(n)

\* ------------------------------------------------------------------- uint
\* A uint is 64 bits wide: UintLimbs limbs of LimbBits bits, least
\* significant first.

LimbBits == 16
UintLimbs == 4
LimbBase == 2 ^ LimbBits

RECURSIVE NatLimbs(_, _)
NatLimbs(n, k) ==
    IF k = 0 THEN <<>> ELSE <<n % LimbBase>> \o NatLimbs(n \div LimbBase, k - 1)

\* uint(n) of an int n: two's complement for a negative n.
UintOfInt(n) ==
    IF n >= 0 THEN NatLimbs(n, UintLimbs)
    ELSE LET m == NatLimbs((0 - n) - 1, UintLimbs)
         IN  [i \in 1..UintLimbs |-> (LimbBase - 1) - m[i]]

UintIsZero(u) == \A i \in 1..Len(u) : u[i] = 0

\* Long division of a uint by 10, from the most significant limb down.
RECURSIVE DivMod10(_, _, _)
DivMod10(u, i, rem) ==
    IF i = 0 THEN [quot |-> u, rem |-> rem]
    ELSE LET cur == rem * LimbBase + u[i]
         IN  DivMod10([u EXCEPT ![i] = cur \div 10], i - 1, cur % 10)

RECURSIVE FormatUintDigits(_)
FormatUintDigits(u) ==
    IF UintIsZero(u) THEN <<>>
    ELSE LET d == DivMod10(u, Len(u), 0)
         IN  FormatUintDigits(d.quot) \o <<Digits[d.rem + 1]>>

\* fmt's %d of a uint
FormatUint(u) == IF UintIsZero(u) THEN <<"0">> ELSE FormatUintDigits(u)

\* ------------------------------------------------------------------- JSON
\* encoding/json's string encoding: a quote and a backslash get a
\* backslash, "<" is written as the escape u003c (json.Marshal escapes
\* HTML), and a byte that is not valid UTF-8 as the escape ufffd.

EscapeChar(c) ==
    CASE c = "\"" -> <<"\\", "\"">>
      [] c = "\\" -> <<"\\", "\\">>
      [] c = "<" -> <<"\\", "u", "0", "0", "3", "c">>
      [] c = "0xFF" -> <<"\\", "u", "f", "f", "f", "d">>
      [] OTHER -> <<c>>

RECURSIVE Escape(_)
Escape(s) == IF s = <<>> THEN <<>> ELSE EscapeChar(Head(s)) \o Escape(Tail(s))

Quote(s) == <<"\"">> \o Escape(s) \o <<"\"">>

\* The request body of a request to move an issue.
MoveIssueRequest(pipelineID, position) ==
    [PipelineID |-> pipelineID, Position |-> position]

\* Marshal without the json tags: the members get the names of the fields.
MarshalUntagged(request) ==
    <<"{">> \o Quote(<<"PipelineID">>) \o <<":">> \o Quote(request.PipelineID)
        \o <<",">> \o Quote(<<"Position">>) \o <<":">> \o Quote(request.Position)
        \o <<"}">>

\* json.Marshal of a MoveIssueRequest: the fields in declaration order,
\* under the names of their json tags.
Marshal(request) ==
    <<"{">> \o Quote(<<"pipeline_id">>) \o <<":">> \o Quote(request.PipelineID)
        \o <<",">> \o Quote(<<"position">>) \o <<":">> \o Quote(request.Position)
        \o <<"}">>

\* ------------------------------------------------------------------ errors
\* An error is its message.

ErrArgCount(n) ==
    <<"expected exactly two argument, the issue ID and the pipeline ID. Received ">>
        \o FormatInt(n)

ErrIssueID(arg) == <<"expected issue ID to be an int, got ">> \o arg

ErrWorkspaceID(workspaceID) == <<"invalid workpace-id value of ">> \o workspaceID

ErrRepositoryID(repositoryID) ==
    <<"invalid repository-id value of ">> \o FormatUint(repositoryID)

ErrMoveIssue(cause) == <<"failed to move issue between pipelines: ">> \o cause

\* The *url.Error http.Client.Post wraps a failure of the transport in.
UrlError(url, cause) == <<"Post \"">> \o url \o <<"\": ">> \o cause

\* GetZenHubToken without the trimming.
GetZenHubTokenUntrimmed(value) ==
    IF value # <<>>
    THEN [token |-> value, err |-> Nil]
    ELSE [token |-> <<>>,
          err |-> <<"expected environment variable ">> \o ZenHubTokenEnvVar]

\* GetZenHubToken, given the value of the environment variable.
GetZenHubToken(value) ==
    LET envVar == TrimSpace(value)
    IN  IF envVar # <<>>
        THEN [token |-> envVar, err |-> Nil]
        ELSE [token |-> <<>>,
              err |-> <<"expected environment variable ">> \o ZenHubTokenEnvVar]

\* ErrorFromStatusCode with the messages of 403 and 404 exchanged.
ErrorFromStatusCodeSwapped(statusCode) ==
    CASE statusCode = 401 ->
           <<"authentication token is not valid. Check that ">> \o ZenHubTokenEnvVar
               \o <<" is set correctly">>
      [] statusCode = 404 ->
           <<"ZenHub API request limit reached. Please try again later">>
      [] statusCode = 403 ->
           <<"endpoint not found. This most likely is a bug in zh, please report it">>
      [] statusCode = 200 -> Nil
      [] OTHER ->
           <<"unknown status code ">> \o FormatInt(statusCode)
               \o <<". This most likely is a bug in zh, please report it">>

ErrorFromStatusCode(statusCode) ==
    CASE statusCode = 401 ->
           <<"authentication token is not valid. Check that ">> \o ZenHubTokenEnvVar
               \o <<" is set correctly">>
      [] statusCode = 403 ->
           <<"ZenHub API request limit reached. Please try again later">>
      [] statusCode = 404 ->
           <<"endpoint not found. This most likely is a bug in zh, please report it">>
      [] statusCode = 200 -> Nil
      [] OTHER ->
           <<"unknown status code ">> \o FormatInt(statusCode)
               \o <<". This most likely is a bug in zh, please report it">>

\* ---------------------------------------------------------------- requests

HeaderNames == {"Content-Type", AuthenticationHeader}

NoHeader == [h \in HeaderNames |-> <<>>]

\* http.Header.Add: the value is appended to the values the key has.
HeaderAdd(header, key, value) == [header EXCEPT ![key] = Append(@, value)]

\* http.Header.Set: the value replaces the values the key has.
HeaderSet(header, key, value) == [header EXCEPT ![key] = <<value>>]

\* The request http.Client.Post builds.
PostRequest(url, contentType, body) ==
    [method |-> "POST", url |-> url,
     header |-> HeaderSet(NoHeader, "Content-Type", contentType), body |-> body]

\* RoundTrip with Header.Set in the place of Header.Add.
SetAuthentication(t, r) ==
    [r EXCEPT !.header = HeaderSet(r.header, AuthenticationHeader, t.authenticationToken)]

\* AuthenticationTransport.RoundTrip, up to the call of the wrapped
\* transport: the request that call is given.
AddAuthentication(t, r) ==
    [r EXCEPT !.header = HeaderAdd(r.header, AuthenticationHeader, t.authenticationToken)]

NoRequest == [method |-> "", url |-> <<>>, header |-> NoHeader, body |-> <<>>]

NoResponse == [err |-> Nil, StatusCode |-> 0]

\* ------------------------------------------------------------------ inputs

Unset == [set |-> FALSE, value |-> <<>>]
Given(v) == [set |-> TRUE, value |-> v]

TokenEnvValues == {<<>>, <<" ">>, <<"t">>, <<" ", "t", " ">>}

WorkspaceEnvValues == {<<>>, <<"e">>}
WorkspaceFlagValues == {Unset, Given(<<>>), Given(<<" ">>), Given(<<"w">>)}

RepositoryEnvValues ==
    {<<>>, <<" ">>, <<"0">>, <<"4", "2">>, <<"-", "1">>, <<"x">>, <<" ", "7">>}
RepositoryFlagValues == {Unset, Given(UintOfInt(0)), Given(UintOfInt(7))}

BaseURLFlagValues == {Unset, Given(<<"http://localhost:8080">>)}

IssueArgs == {<<"7">>, <<"-", "7">>, <<"+", "1", "0">>, <<"a">>, <<>>}
PipelineArgs == {<<"p", "9">>, <<"\"">>, <<"<">>, <<"0xFF">>, <<>>}

\* The argument lists: every list of at most two arguments, and the lists
\* that follow two good arguments by more.
RECURSIVE Extra(_)
Extra(k) == IF k = 0 THEN <<>> ELSE <<<<"z">>>> \o Extra(k - 1)

ArgLists ==
    {<<>>} \cup {<<i>> : i \in IssueArgs}
        \cup {<<i, p>> : i \in IssueArgs, p \in PipelineArgs}
        \cup {<<<<"7">>, <<"p", "9">>>> \o Extra(k) : k \in 1..(MaxArgs - 2)}

\* What the wrapped transport answers: a response, or an error.
TransportErrors == {<<"dial tcp: connection refused">>}
TransportStatusCodes == {200, 401, 403, 404, 500}
TransportOutcomes ==
    {[err |-> e, StatusCode |-> 0] : e \in TransportErrors}
        \cup {[err |-> Nil, StatusCode |-> c] : c \in TransportStatusCodes}

\* ------------------------------------------------------------------- state

VARIABLES
    env,                  \* the environment: token, workspace, repository
    argv,                 \* the command line: the flags and the arguments of `issue mv`
    pc,                   \* where the process is
    defaultWorkspaceID,   \* main's local
    defaultRepositoryID,  \* main's local
    client,               \* the AuthenticationTransport of MoveIssueCommand's client
    locals,               \* MoveIssueCommand's issueID and pipelineID
    req,                  \* the request given to RoundTrip
    sent,                 \* the requests the wrapped transport was called with
    resp,                 \* what the wrapped transport returned
    err,                  \* the error MoveIssueCommand returned
    stdout,               \* what was printed to standard output
    stderr,               \* the message logged at fatal level
    exitCode              \* the exit code of the process, -1 while it runs

vars ==
    <<env, argv, pc, defaultWorkspaceID, defaultRepositoryID, client, locals, req,
      sent, resp, err, stdout, stderr, exitCode>>

NoClient == [authenticationToken |-> <<>>]
NoLocals == [issueID |-> 0, pipelineID |-> <<>>]

Fresh ==
    /\ defaultWorkspaceID = <<>>
    /\ defaultRepositoryID = UintOfInt(0)
    /\ client = NoClient
    /\ locals = NoLocals
    /\ req = NoRequest
    /\ sent = <<>>
    /\ resp = NoResponse
    /\ err = Nil
    /\ stdout = <<>>
    /\ stderr = <<>>
    /\ exitCode = -1

Init ==
    /\ env \in [token : TokenEnvValues, workspace : WorkspaceEnvValues,
                repository : RepositoryEnvValues]
    /\ argv \in [baseURL : BaseURLFlagValues, workspaceID : WorkspaceFlagValues,
                 repositoryID : RepositoryFlagValues, args : ArgLists]
    /\ pc = "main"
    /\ Fresh

\* The value of a flag: the one given on the command line, or the flag's
\* default Value.
FlagValue(flag, default) == IF flag.set THEN flag.value ELSE default

\* ----------------------------------------------------------------- actions

\* main with the error of Atoi logged, not fatal: the default stays 0.
MainNotFatal ==
    /\ pc = "main"
    /\ LET repoIDEnv == env.repository
           repoID == Atoi(repoIDEnv)
       IN  /\ pc' = "run"
           /\ defaultWorkspaceID' = env.workspace
           /\ defaultRepositoryID' =
                  IF TrimSpace(repoIDEnv) # <<>> /\ repoID.ok THEN UintOfInt(repoID.val)
                  ELSE UintOfInt(0)
    /\ UNCHANGED <<env, argv, client, locals, req, sent, resp, err, stdout, stderr,
                   exitCode>>

\* main, up to app.Run: the defaults of the flags are read from the
\* environment; a repository ID that is not blank and not an integer is fatal.
Main ==
    /\ pc = "main"
    /\ LET repoIDEnv == env.repository
           repoID == Atoi(repoIDEnv)
       IN  IF TrimSpace(repoIDEnv) # <<>> /\ ~repoID.ok
           THEN /\ pc' = "exited"
                /\ exitCode' = 1
                /\ stderr' = <<"invalid value for default repository ID">>
                /\ UNCHANGED <<defaultWorkspaceID, defaultRepositoryID>>
           ELSE /\ pc' = "run"
                /\ defaultWorkspaceID' = env.workspace
                /\ defaultRepositoryID' =
                       IF TrimSpace(repoIDEnv) # <<>> THEN UintOfInt(repoID.val)
                       ELSE UintOfInt(0)
                /\ UNCHANGED <<exitCode, stderr>>
    /\ UNCHANGED <<env, argv, client, locals, req, sent, resp, err, stdout>>

\* MoveIssueCommand returns e.
Return(e) ==
    /\ pc' = "returned"
    /\ err' = e

\* MoveIssueCommand, up to client.Post's call of the transport.
MoveIssueCommand ==
    /\ pc = "run"
    /\ LET args == argv.args
           first == IF args = <<>> THEN <<>> ELSE args[1]
           issueID == Atoi(first)
           pipelineID == IF Len(args) >= 2 THEN args[2] ELSE <<>>
           token == GetZenHubToken(env.token)
           transport == [authenticationToken |-> token.token]
           workspaceID == FlagValue(argv.workspaceID, defaultWorkspaceID)
           repositoryID == FlagValue(argv.repositoryID, defaultRepositoryID)
           url == FlagValue(argv.baseURL, DefaultBaseURL) \o <<"/p2/workspaces/">>
                      \o workspaceID \o <<"/repositories/">> \o FormatUint(repositoryID)
                      \o <<"/issues/">> \o FormatInt(issueID.val) \o <<"/moves">>
           body == Marshal(MoveIssueRequest(pipelineID, <<"bottom">>))
       IN  IF Len(args) # 2
           THEN Return(ErrArgCount(Len(args))) /\ UNCHANGED <<client, locals, req>>
           ELSE IF ~issueID.ok
           THEN Return(ErrIssueID(first)) /\ UNCHANGED <<client, locals, req>>
           ELSE IF token.err # Nil
           THEN /\ Return(token.err)
                /\ locals' = [issueID |-> issueID.val, pipelineID |-> pipelineID]
                /\ UNCHANGED <<client, req>>
           ELSE IF workspaceID = <<>>
           THEN /\ Return(ErrWorkspaceID(workspaceID))
                /\ locals' = [issueID |-> issueID.val, pipelineID |-> pipelineID]
                /\ client' = transport
                /\ UNCHANGED req
           ELSE IF UintIsZero(repositoryID)
           THEN /\ Return(ErrRepositoryID(repositoryID))
                /\ locals' = [issueID |-> issueID.val, pipelineID |-> pipelineID]
                /\ client' = transport
                /\ UNCHANGED req
           ELSE /\ pc' = "post"
                /\ locals' = [issueID |-> issueID.val, pipelineID |-> pipelineID]
                /\ client' = transport
                /\ req' = PostRequest(url, <<"application/json">>, body)
                /\ UNCHANGED err
    /\ UNCHANGED <<env, argv, defaultWorkspaceID, defaultRepositoryID, sent, resp,
                   stdout, stderr, exitCode>>

\* AuthenticationTransport.RoundTrip: the header is added to the request, and
\* the wrapped transport is called with it; what it answers is returned.
RoundTrip ==
    /\ pc = "post"
    /\ req' = AddAuthentication(client, req)
    /\ sent' = Append(sent, req')
    /\ \E out \in TransportOutcomes : resp' = out
    /\ pc' = "responded"
    /\ UNCHANGED <<env, argv, defaultWorkspaceID, defaultRepositoryID, client, locals,
                   err, stdout, stderr, exitCode>>

\* MoveIssueCommand, posting again when the transport failed.
HandleResponseRetry ==
    /\ pc = "responded"
    /\ IF resp.err # Nil
       THEN /\ pc' = "post"
            /\ UNCHANGED <<err, stdout>>
       ELSE /\ pc' = "returned"
            /\ LET e == ErrorFromStatusCode(resp.StatusCode)
               IN  IF e # Nil
                   THEN /\ err' = ErrMoveIssue(e)
                        /\ UNCHANGED stdout
                   ELSE /\ err' = Nil
                        /\ stdout' = stdout \o <<"Successfully moved issue ">>
                               \o FormatInt(locals.issueID) \o <<" to pipelines ">>
                               \o locals.pipelineID \o <<"\n">>
    /\ UNCHANGED <<env, argv, defaultWorkspaceID, defaultRepositoryID, client, locals,
                   req, sent, resp, stderr, exitCode>>

\* MoveIssueCommand, from the return of client.Post.
HandleResponse ==
    /\ pc = "responded"
    /\ IF resp.err # Nil
       THEN /\ err' = ErrMoveIssue(UrlError(req.url, resp.err))
            /\ UNCHANGED stdout
       ELSE LET e == ErrorFromStatusCode(resp.StatusCode)
            IN  IF e # Nil
                THEN /\ err' = ErrMoveIssue(e)
                     /\ UNCHANGED stdout
                ELSE /\ err' = Nil
                     /\ stdout' = stdout \o <<"Successfully moved issue ">>
                            \o FormatInt(locals.issueID) \o <<" to pipelines ">>
                            \o locals.pipelineID \o <<"\n">>
    /\ pc' = "returned"
    /\ UNCHANGED <<env, argv, defaultWorkspaceID, defaultRepositoryID, client, locals,
                   req, sent, resp, stderr, exitCode>>

\* main with the error of app.Run logged, not fatal.
ExitZero ==
    /\ pc = "returned"
    /\ exitCode' = 0
    /\ stderr' = IF err # Nil THEN <<"Failed to run app">> \o err ELSE stderr
    /\ pc' = "exited"
    /\ UNCHANGED <<env, argv, defaultWorkspaceID, defaultRepositoryID, client, locals,
                   req, sent, resp, err, stdout>>

\* main, from the return of app.Run: an error is logged at fatal level,
\* which exits with code 1.
Exit ==
    /\ pc = "returned"
    /\ IF err # Nil
       THEN exitCode' = 1 /\ stderr' = <<"Failed to run app">> \o err
       ELSE exitCode' = 0 /\ UNCHANGED stderr
    /\ pc' = "exited"
    /\ UNCHANGED <<env, argv, defaultWorkspaceID, defaultRepositoryID, client, locals,
                   req, sent, resp, err, stdout>>

Next ==
    \/ Main
    \/ MoveIssueCommand
    \/ RoundTrip
    \/ HandleResponse
    \/ Exit

Spec == Init /\ [][Next]_vars

\* ErrorFromStatusCode on every status code: the process at the return of
\* client.Post, for one good command line and any status code of the response.
StatusCodes == (0 - 1)..MaxStatusCode

GoodEnv == [token |-> <<"t">>, workspace |-> <<"e">>, repository |-> <<"4", "2">>]
GoodArgv ==
    [baseURL |-> Unset, workspaceID |-> Unset, repositoryID |-> Unset,
     args |-> <<<<"7">>, <<"p", "9">>>>]
GoodClient == [authenticationToken |-> <<"t">>]
GoodRequest ==
    AddAuthentication(GoodClient,
        PostRequest(DefaultBaseURL \o <<"/p2/workspaces/">> \o <<"e">>
                        \o <<"/repositories/">> \o <<"4", "2">> \o <<"/issues/">>
                        \o <<"7">> \o <<"/moves">>,
                    <<"application/json">>,
                    Marshal(MoveIssueRequest(<<"p", "9">>, <<"bottom">>))))

InitStatus ==
    /\ env = GoodEnv
    /\ argv = GoodArgv
    /\ pc = "responded"
    /\ defaultWorkspaceID = <<"e">>
    /\ defaultRepositoryID = UintOfInt(42)
    /\ client = GoodClient
    /\ locals = [issueID |-> 7, pipelineID |-> <<"p", "9">>]
    /\ req = GoodRequest
    /\ sent = <<GoodRequest>>
    /\ resp \in [err : {Nil}, StatusCode : StatusCodes]
    /\ err = Nil
    /\ stdout = <<>>
    /\ stderr = <<>>
    /\ exitCode = -1

NextStatus ==
    \/ HandleResponse
    \/ Exit

SpecStatus == InitStatus /\ [][NextStatus]_vars

\* AuthenticationTransport.RoundTrip on any request: a transport with any
\* token is given a request of any method, URL, headers and body.
HeaderValues == {<<"old">>, <<"t">>}
HeaderValueLists == UNION {[1..k -> HeaderValues] : k \in 0..MaxHeaderValues}
AnyRequests ==
    [method : {"GET", "POST"}, url : {DefaultBaseURL, <<"http://localhost:8080">>},
     header : [HeaderNames -> HeaderValueLists], body : {<<>>, <<"{", "}">>}]

InitRoundTrip ==
    /\ env = GoodEnv
    /\ argv = GoodArgv
    /\ pc = "post"
    /\ defaultWorkspaceID = <<"e">>
    /\ defaultRepositoryID = UintOfInt(42)
    /\ client \in [authenticationToken : {<<"t">>, <<"u">>}]
    /\ locals = [issueID |-> 7, pipelineID |-> <<"p", "9">>]
    /\ req \in AnyRequests
    /\ sent = <<>>
    /\ resp = NoResponse
    /\ err = Nil
    /\ stdout = <<>>
    /\ stderr = <<>>
    /\ exitCode = -1

NextRoundTrip == RoundTrip

SpecRoundTrip == InitRoundTrip /\ [][NextRoundTrip]_vars

\* ------------------------------------------------------------- properties

\* The kind of an error, read off its message.
Unwrap(e) ==
    IF e # Nil /\ Head(e) = "failed to move issue between pipelines: " THEN Tail(e) ELSE e

Kind(e) ==
    IF e = Nil THEN "success"
    ELSE LET m == Head(Unwrap(e))
         IN  CASE m = "expected exactly two argument, the issue ID and the pipeline ID. Received "
                    -> "argument"
               [] m = "expected issue ID to be an int, got " -> "argument"
               [] m = "expected environment variable " -> "configuration"
               [] m = "invalid workpace-id value of " -> "configuration"
               [] m = "invalid repository-id value of " -> "configuration"
               [] m = "Post \"" -> "network"
               [] m = "authentication token is not valid. Check that " -> "authentication"
               [] m = "ZenHub API request limit reached. Please try again later"
                    -> "rate limit"
               [] m = "endpoint not found. This most likely is a bug in zh, please report it"
                    -> "not found"
               [] m = "unknown status code " -> "unknown status"
               [] OTHER -> "other"

\* main stopped the process before app.Run.
Fatal == pc = "exited" /\ stderr = <<"invalid value for default repository ID">>

\* MoveIssueCommand has returned.
Returned == pc = "returned" \/ (pc = "exited" /\ ~Fatal)

\* The command line and the environment, as the specification reads them.
IsInteger(s) ==
    LET body == IF s # <<>> /\ Head(s) \in {"+", "-"} THEN Tail(s) ELSE s
    IN  body # <<>> /\ \A i \in 1..Len(body) : body[i] \in {Digits[d] : d \in 1..10}

ArgumentDefect == Len(argv.args) # 2 \/ ~IsInteger(argv.args[1])

BlankToken == \A i \in 1..Len(env.token) : env.token[i] = " "

GivenWorkspaceID ==
    IF argv.workspaceID.set THEN argv.workspaceID.value ELSE env.workspace

BlankRepositoryEnv == \A i \in 1..Len(env.repository) : env.repository[i] = " "

BadRepositoryEnv == ~BlankRepositoryEnv /\ ~IsInteger(env.repository)

ZeroRepositoryID ==
    IF argv.repositoryID.set THEN argv.repositoryID.value = <<0, 0, 0, 0>>
    ELSE BlankRepositoryEnv
             \/ (IsInteger(env.repository)
                    /\ \A i \in 1..Len(env.repository) : env.repository[i] \in {"+", "-", "0"})

ConfigurationDefect == BlankToken \/ GivenWorkspaceID = <<>> \/ ZeroRepositoryID

\* C1: a run whose command line or environment has an argument or
\* configuration defect, and a run that has ended in an argument or
\* configuration error, has sent no request to the transport.
C1_NoRequestOnEarlyError ==
    (ArgumentDefect \/ ConfigurationDefect
        \/ (Returned /\ Kind(err) \in {"argument", "configuration"}))
        => sent = <<>>

C1_Witness ==
    /\ pc = "exited"
    /\ ~ArgumentDefect
    /\ ZeroRepositoryID
    /\ Kind(err) = "configuration"
    /\ exitCode = 1
    /\ sent = <<>>

\* The code an unknown-status error names.
CodeOf(e) == Atoi(SubSeq(Unwrap(e), 2, Len(Unwrap(e)) - 1))

\* C2: the error MoveIssueCommand returns for a response is decided by the
\* status code alone: none for 200, the authentication error for 401, the
\* rate limit error for 403, the not found error for 404, and for every
\* other code the unknown status error, which names that code.
C2_StatusMapping ==
    (pc = "returned" /\ resp.err = Nil) =>
        LET c == resp.StatusCode
        IN  /\ Kind(err) =
                   CASE c = 200 -> "success"
                     [] c = 401 -> "authentication"
                     [] c = 403 -> "rate limit"
                     [] c = 404 -> "not found"
                     [] OTHER -> "unknown status"
            /\ Kind(err) = "unknown status" => CodeOf(err) = [ok |-> TRUE, val |-> c]
            /\ (err = Nil) = (c = 200)

C2_Witness ==
    /\ pc = "returned"
    /\ resp.StatusCode = 500
    /\ Kind(err) = "unknown status"
    /\ CodeOf(err).val = 500

\* C8: when the arguments are not exactly two, or the first is no integer,
\* MoveIssueCommand returns the argument error, whatever the token, the
\* workspace ID and the repository ID are.
C8_ArgumentErrorFirst ==
    (Returned /\ ArgumentDefect) =>
        /\ Kind(err) = "argument"
        /\ Head(err) =
               IF Len(argv.args) # 2
               THEN "expected exactly two argument, the issue ID and the pipeline ID. Received "
               ELSE "expected issue ID to be an int, got "
        /\ sent = <<>>

C8_Witness ==
    /\ pc = "returned"
    /\ Len(argv.args) = 2
    /\ ~IsInteger(argv.args[1])
    /\ BlankToken
    /\ GivenWorkspaceID = <<>>
    /\ Kind(err) = "argument"

\* C9: with a repository ID in the environment that is not blank and not an
\* integer, main ends the process with a fatal message before MoveIssueCommand
\* runs, whether or not the flag is given; with a blank one the default
\* repository ID is 0 and the command runs.
C9_FatalRepositoryEnv ==
    pc # "main" =>
        /\ BadRepositoryEnv =>
               /\ Fatal
               /\ exitCode = 1
               /\ sent = <<>>
               /\ err = Nil
               /\ client = NoClient
               /\ stdout = <<>>
        /\ BlankRepositoryEnv => ~Fatal /\ defaultRepositoryID = <<0, 0, 0, 0>>

C9_Witness ==
    /\ pc = "exited"
    /\ BadRepositoryEnv
    /\ argv.repositoryID.set
    /\ ~UintIsZero(argv.repositoryID.value)
    /\ exitCode = 1

NotBlank(s) == \E i \in 1..Len(s) : s[i] # " "

\* C3: a request is given to the transport only for a repository ID that is
\* not zero and a workspace ID and a token that are not blank.
C3_DispatchedConfigValid ==
    sent # <<>> =>
        /\ ~ZeroRepositoryID
        /\ NotBlank(GivenWorkspaceID)
        /\ NotBlank(env.token)

\* The repository ID the command line and the environment give.
GivenRepositoryID ==
    IF argv.repositoryID.set THEN argv.repositoryID.value
    ELSE UintOfInt(Atoi(env.repository).val)

GivenBaseURL ==
    IF argv.baseURL.set THEN argv.baseURL.value ELSE <<"https://api.zenhub.com">>

\* Reading a JSON object of string members back.
Rune(h) ==
    CASE h = <<"0", "0", "3", "c">> -> "<"
      [] h = <<"f", "f", "f", "d">> -> "U+FFFD"
      [] OTHER -> "?"

RECURSIVE ScanString(_, _, _)
ScanString(s, i, acc) ==
    IF i > Len(s) THEN [ok |-> FALSE, val |-> acc, next |-> i]
    ELSE IF s[i] = "\"" THEN [ok |-> TRUE, val |-> acc, next |-> i + 1]
    ELSE IF s[i] # "\\" THEN ScanString(s, i + 1, Append(acc, s[i]))
    ELSE IF i + 1 <= Len(s) /\ s[i + 1] \in {"\"", "\\"}
    THEN ScanString(s, i + 2, Append(acc, s[i + 1]))
    ELSE IF i + 5 <= Len(s) /\ s[i + 1] = "u"
    THEN ScanString(s, i + 6, Append(acc, Rune(SubSeq(s, i + 2, i + 5))))
    ELSE [ok |-> FALSE, val |-> acc, next |-> i]

RECURSIVE ScanMembers(_, _, _)
ScanMembers(s, i, acc) ==
    LET name == ScanString(s, i + 1, <<>>)
        value == ScanString(s, name.next + 2, <<>>)
        members == Append(acc, [name |-> name.val, value |-> value.val])
        bad == [ok |-> FALSE, members |-> acc]
    IN  IF i > Len(s) \/ s[i] # "\"" \/ ~name.ok THEN bad
        ELSE IF name.next + 1 > Len(s) \/ s[name.next] # ":" \/ s[name.next + 1] # "\""
        THEN bad
        ELSE IF ~value.ok \/ value.next > Len(s) THEN bad
        ELSE IF s[value.next] = "," THEN ScanMembers(s, value.next + 1, members)
        ELSE IF s[value.next] = "}" /\ value.next = Len(s)
        THEN [ok |-> TRUE, members |-> members]
        ELSE bad

Unmarshal(s) ==
    IF s # <<>> /\ s[1] = "{" THEN ScanMembers(s, 2, <<>>)
    ELSE [ok |-> FALSE, members |-> <<>>]

ValidInput == ~ArgumentDefect /\ ~ConfigurationDefect /\ ~BadRepositoryEnv

\* The request of a valid command line, but for the pipeline ID of its body.
MoveRequestShape(pipelineID) ==
    /\ ValidInput /\ pc \in {"responded", "returned", "exited"} => Len(sent) = 1
    /\ sent # <<>> =>
           LET r == sent[1]
               json == Unmarshal(r.body)
           IN  /\ Len(sent) = 1
               /\ r.method = "POST"
               /\ r.header["Content-Type"] = <<<<"application/json">>>>
               /\ r.url = GivenBaseURL \o <<"/p2/workspaces/">> \o GivenWorkspaceID
                              \o <<"/repositories/">> \o FormatUint(GivenRepositoryID)
                              \o <<"/issues/">> \o FormatInt(Atoi(argv.args[1]).val)
                              \o <<"/moves">>
               /\ json.ok
               /\ json.members =
                      <<[name |-> <<"pipeline_id">>, value |-> pipelineID],
                        [name |-> <<"position">>, value |-> <<"bottom">>]>>

\* C4, as claimed: the request of a valid command line is a POST of content
\* type application/json to the URL of the template, and its body has the
\* two members pipeline_id, the second argument as given, and position,
\* "bottom".
C4_RequestAsClaimed == MoveRequestShape(argv.args[2])

ToValidUTF8(s) == [i \in 1..Len(s) |-> IF s[i] = "0xFF" THEN "U+FFFD" ELSE s[i]]

\* C4, amended: as claimed, but pipeline_id is the second argument with every
\* byte that is not valid UTF-8 replaced by U+FFFD: it is the argument as
\* given when that is valid UTF-8.
C4_RequestShape == MoveRequestShape(ToValidUTF8(argv.args[2]))

C4_Witness ==
    /\ pc = "responded"
    /\ Len(sent) = 1
    /\ argv.args[2] = <<"\"">>
    /\ argv.baseURL.set
    /\ Unmarshal(sent[1].body).members[1].value = <<"\"">>

\* http.Header.Get: the first value of the header, or none.
HeaderGet(header, key) == IF header[key] = <<>> THEN <<>> ELSE header[key][1]

\* The request the wrapped transport is called with is the one RoundTrip was
\* given, but for the authentication header, whose values are `values`.
RoundTripFrame(values(_)) ==
    (pc = "post" /\ pc' = "responded") =>
        /\ Len(sent') = Len(sent) + 1
        /\ LET out == sent'[Len(sent')]
           IN  /\ out.method = req.method
               /\ out.url = req.url
               /\ out.body = req.body
               /\ \A h \in HeaderNames \ {"X-Authentication-Token"} :
                      out.header[h] = req.header[h]
               /\ values(out.header["X-Authentication-Token"])
        /\ resp' \in TransportOutcomes

TokenIsValue(values) ==
    values # <<>> /\ values[1] = client.authenticationToken

\* C5, as claimed: the request the wrapped transport gets differs from the
\* one given only in the authentication header, whose value is the token.
C5_HeaderAsClaimed == [][RoundTripFrame(TokenIsValue)]_vars

TokenIsAppended(values) ==
    values = Append(req.header["X-Authentication-Token"], client.authenticationToken)

\* C5, amended: the request the wrapped transport gets differs from the one
\* given only in the authentication header, which has the values it had,
\* followed by the token; the wrapped transport is called once.
C5_HeaderAppended == [][RoundTripFrame(TokenIsAppended)]_vars

C5_Witness ==
    /\ pc = "responded"
    /\ Len(sent) = 1
    /\ sent[1].header["X-Authentication-Token"] = <<<<"old">>, <<"u">>>>
    /\ client.authenticationToken = <<"u">>
    /\ sent[1].header["Content-Type"] # <<>>

ResponseErrorKinds ==
    {"network", "authentication", "rate limit", "not found", "unknown status"}

Confirms(out, issue, pipeline) ==
    \E k \in 2..(Len(out) - 1) :
        /\ out[1] = "Successfully moved issue "
        /\ out[k] = " to pipelines "
        /\ Atoi(SubSeq(out, 2, k - 1)) = [ok |-> TRUE, val |-> issue]
        /\ SubSeq(out, k + 1, Len(out) - 1) = pipeline
        /\ out[Len(out)] = "\n"

\* C7: the process exits with code 0, having printed the confirmation of
\* the issue and the pipeline, exactly when a request was sent and answered
\* with status 200; every other run prints no confirmation and exits with
\* another code and a message.
C7_ExitCode ==
    pc = "exited" =>
        IF sent # <<>> /\ resp.err = Nil /\ resp.StatusCode = 200
        THEN /\ exitCode = 0
             /\ Confirms(stdout, Atoi(argv.args[1]).val, argv.args[2])
             /\ stderr = <<>>
        ELSE /\ exitCode > 0
             /\ stdout = <<>>
             /\ stderr # <<>>

C7_Witness ==
    /\ pc = "exited"
    /\ exitCode = 0
    /\ argv.args[1] = <<"+", "1", "0">>
    /\ Confirms(stdout, 10, argv.args[2])

\* The part of a URL between two of its texts.
Between(url, a, b) ==
    LET i == CHOOSE i \in 1..Len(url) : url[i] = a
        j == CHOOSE j \in 1..Len(url) : url[j] = b
    IN  SubSeq(url, i + 1, j - 1)

\* C10: the repository ID in the URL of a request is the flag's when the
\* flag is given, and else the integer the environment variable parses to.
C10_RepositoryIDInURL ==
    sent # <<>> =>
        Between(sent[1].url, "/repositories/", "/issues/") =
            IF argv.repositoryID.set THEN FormatUint(argv.repositoryID.value)
            ELSE FormatInt(Atoi(env.repository).val)

====
